---- MODULE Spec2Model ----
(***************************************************************************)
(* Model of foobot's ActionHandler (src/src/action_handler.rs): the action *)
(* dispatcher `run`, the per-action handlers and the timed moderation      *)
(* protocol (hitman / bodyguard / emote-only) running as concurrent async  *)
(* invocations that share the hitman records of the database and one       *)
(* bounded tokio mpsc channel of outbound chat messages.                   *)
(*                                                                         *)
(* Text is modelled as TLA+ strings; argument tokens are sequences of      *)
(* one-character strings so that parsing and '@'-stripping are computed.   *)
(***************************************************************************)
EXTENDS Naturals, Sequences, FiniteSets, TLC

(***************************************************************************)
(* Bounds of the model.                                                    *)
(***************************************************************************)
\* number of invocations of run() over a behaviour
MaxInv == 2
\* capacity of the outbound mpsc channel (set where the channel is created)
MaxQueue == 2
\* largest value of a user's currency counter
MaxCurrency == 2
\* number of invocations of run() over a behaviour in which every invocation
\* is a hitman or a bodyguard for one user of one channel
MaxRace == 3

(***************************************************************************)
(* Inputs.                                                                 *)
(***************************************************************************)
Bob == <<"b", "o", "b">>
AtBob == <<"@", "b", "o", "b">>
Amy == <<"a", "m", "y">>
T5 == <<"5">>
T60 == <<"6", "0">>
T180 == <<"1", "8", "0">>
T300 == <<"3", "0", "0">>

\* the names run() matches, lines 84-134
BuiltIns ==
    {"spotify", "spotify.playlist", "lastsong", "hitman", "bodyguard", "ping",
     "commercial", "weather", "translate", "emoteonly", "increment", "currency"}

ActionNames == BuiltIns \cup {"dance"}

Channels == {"c1", "c2"}

\* the argument lists run() is called with, per action: none, the user or
\* duration the action expects, and tokens it has to reject
ArgsOf(action) ==
    CASE action \in {"hitman", "bodyguard"} -> {<<>>, <<Bob>>, <<AtBob>>, <<Amy>>}
      [] action = "commercial" -> {<<>>, <<T5>>, <<T60>>, <<T180>>, <<T300>>, <<Bob>>}
      [] action = "emoteonly" -> {<<>>, <<T5>>, <<Bob>>}
      [] action = "weather" -> {<<>>, <<Amy>>, <<Amy, Bob>>}
      [] OTHER -> {<<>>, <<Bob>>}

\* the calls of run() the caller makes
Requests ==
    UNION { [action : {a}, args : ArgsOf(a), channel : Channels] : a \in ActionNames }

\* the invocations of run() a behaviour can hold
Inv == 1..(IF MaxRace > MaxInv THEN MaxRace ELSE MaxInv)

(***************************************************************************)
(* Text helpers: what str::replace, str::parse, ToString, join and format! *)
(* compute.                                                                *)
(***************************************************************************)
RECURSIVE Str(_)
\* the string spelled by a sequence of characters
Str(s) == IF s = <<>> THEN "" ELSE Head(s) \o Str(Tail(s))

RECURSIVE ReplaceAt(_)
\* name.replace('@', ""): every '@' is removed
ReplaceAt(s) ==
    IF s = <<>> THEN <<>>
    ELSE IF Head(s) = "@" THEN ReplaceAt(Tail(s))
    ELSE <<Head(s)>> \o ReplaceAt(Tail(s))

Digits == <<"0", "1", "2", "3", "4", "5", "6", "7", "8", "9">>

IsDigit(c) == \E d \in 1..10 : Digits[d] = c

DigitVal(c) == (CHOOSE d \in 1..10 : Digits[d] = c) - 1

\* the digits of a token after the optional sign the unsigned FromStr accepts
Unsigned(s) == IF s # <<>> /\ Head(s) = "+" THEN Tail(s) ELSE s

IsNumeral(s) ==
    /\ Unsigned(s) # <<>>
    /\ \A k \in 1..Len(Unsigned(s)) : IsDigit(Unsigned(s)[k])

RECURSIVE StripZeros(_)
StripZeros(s) ==
    IF Len(s) > 1 /\ Head(s) = "0" THEN StripZeros(Tail(s)) ELSE s

RECURSIVE NatOf(_, _)
\* the number a sequence of digits denotes, accumulated from the left
NatOf(s, acc) ==
    IF s = <<>> THEN acc ELSE NatOf(Tail(s), 10 * acc + DigitVal(Head(s)))

RECURSIVE LexLeq(_, _)
\* s <= t for two digit sequences of the same length
LexLeq(s, t) ==
    IF s = <<>> THEN TRUE
    ELSE IF DigitVal(Head(s)) < DigitVal(Head(t)) THEN TRUE
    ELSE IF DigitVal(Head(s)) > DigitVal(Head(t)) THEN FALSE
    ELSE LexLeq(Tail(s), Tail(t))

U8Max == <<"2", "5", "5">>
U64Max ==
    <<"1", "8", "4", "4", "6", "7", "4", "4", "0", "7",
      "3", "7", "0", "9", "5", "5", "1", "6", "1", "5">>

\* the digits fit the integer type whose largest value is max
Fits(s, max) ==
    LET d == StripZeros(s)
    IN  \/ Len(d) < Len(max)
        \/ Len(d) = Len(max) /\ LexLeq(d, max)

\* str::parse::<u8>(): Ok(n) or Err
ParseU8(s) ==
    IF IsNumeral(s) /\ Fits(Unsigned(s), U8Max)
    THEN [ok |-> TRUE, val |-> NatOf(Unsigned(s), 0)]
    ELSE [ok |-> FALSE, val |-> 0]

\* str::parse::<u64>(): Ok(n) or Err; n is kept as its decimal digits
ParseU64(s) ==
    IF IsNumeral(s) /\ Fits(Unsigned(s), U64Max)
    THEN [ok |-> TRUE, val |-> StripZeros(Unsigned(s))]
    ELSE [ok |-> FALSE, val |-> <<>>]

RECURSIVE NatToStr(_)
\* n.to_string() / format!("{}", n)
NatToStr(n) ==
    IF n < 10 THEN Digits[n + 1]
    ELSE NatToStr(n \div 10) \o Digits[(n % 10) + 1]

RECURSIVE Join(_)
\* args.join(" ")
Join(args) ==
    IF args = <<>> THEN ""
    ELSE IF Len(args) = 1 THEN Str(args[1])
    ELSE Str(Head(args)) \o " " \o Join(Tail(args))

(***************************************************************************)
(* Results of run(): Result<Option<String>, CommandHandlerError>, or the   *)
(* panic of the invocation's task.                                         *)
(***************************************************************************)
Pending == [tag |-> "Pending", kind |-> "", text |-> ""]
Reply(t) == [tag |-> "Reply", kind |-> "", text |-> t]
NoReply == [tag |-> "NoReply", kind |-> "", text |-> ""]
Failure(k, t) == [tag |-> "Failure", kind |-> k, text |-> t]
Panic(t) == [tag |-> "Panic", kind |-> "", text |-> t]

\* the panics of Option::unwrap on None and of Result::unwrap on Err
UnwrapNone == Panic("unwrap on a None value")
UnwrapErr == Panic("unwrap on an Err value")

\* SendMsg::Say / SendMsg::Raw, tagged with the invocation that sent it
Msg(i, kind, channel, text) ==
    [id |-> i, kind |-> kind, channel |-> channel, text |-> text]

(***************************************************************************)
(* State.                                                                  *)
(***************************************************************************)
VARIABLES
    inv,        \* the invocations of run(): request, position, result, effects
    db,         \* the hitman records of the database, per (channel, user)
    currency,   \* the currency counters of the database, per username
    chan,       \* the messages buffered in the outbound mpsc channel
    rxClosed,   \* the receiving half of the channel has been dropped
    emoteMode,  \* per chat channel, the last emote-only directive enqueued
    hist        \* history of each invocation (what ran concurrently with it)

vars == <<inv, db, currency, chan, rxClosed, emoteMode, hist>>

\* the users hitman and bodyguard can name
Users == {ReplaceAt(args[1]) : args \in (ArgsOf("hitman") \cup ArgsOf("bodyguard")) \ {<<>>}}

\* the usernames increment and currency can name
Usernames == {args[1] : args \in (ArgsOf("increment") \cup ArgsOf("currency")) \ {<<>>}}

Keys == Channels \X Users

Idle ==
    [pc |-> "idle", action |-> "", args |-> <<>>, channel |-> "", user |-> <<>>,
     dur |-> <<>>, result |-> Pending, calls |-> <<>>, sent |-> <<>>, got |-> <<>>]

\* hist[i]: bg       a bodyguard for the same (channel, user) was in flight
\*                   while hitman i was
\*          overlap  another hitman for the same (channel, user) was in flight
\*                   while hitman i was
\*          guards   the bodyguards whose write landed between hitman i's
\*                   record creation and its delayed read
\*          late     the bodyguards whose write landed after hitman i's
\*                   delayed read returned false
\*          parked   the hitmen that were in their delay when i was invoked
\*          before   the protection flag of the record when i was invoked
\*          dbfail   the persistence call of i that failed
\*          read     what i's delayed read returned
\*          cleared  i has written protected=false back
\*          armed    i has started a delay
NoHist ==
    [bg |-> FALSE, overlap |-> FALSE, guards |-> {}, late |-> {},
     parked |-> {}, before |-> "", dbfail |-> "", read |-> "",
     cleared |-> FALSE, armed |-> FALSE]

\* a call of an external or persistence port by a handler that answered
Call(port, arg) == [port |-> port, arg |-> arg, err |-> ""]

\* a call of a port that returned the error err
Failed(port, arg, err) == [port |-> port, arg |-> arg, err |-> err]

\* where a handler stands after run() has matched the action
Entry(pc, user, dur, result, calls) ==
    [pc |-> pc, user |-> user, dur |-> dur, result |-> result, calls |-> calls,
     cur |-> currency]

Returned(result, calls) == Entry("done", <<>>, <<>>, result, calls)

(***************************************************************************)
(* The handlers that finish without touching the channel or the hitman     *)
(* records.  Each yields the set of ways the handler can end, one per      *)
(* answer of the ports it calls.                                           *)
(***************************************************************************)
TokenCall(c) == Call("db.get_spotify_access_token", c)

\* get_spotify_access_token returning DBConnError::NotFound / another error
TokenMissing(c) == Failed("db.get_spotify_access_token", c, "NotFound")
TokenError(c) == Failed("db.get_spotify_access_token", c, "DBError")

\* get_spotify, lines 142-155
get_spotify(c) ==
    { Returned(Reply("song"),
               <<TokenCall(c), Call("spotify.get_current_song", "token")>>),
      Returned(Reply("no song is currently playing"),
               <<TokenCall(c), Call("spotify.get_current_song", "token")>>),
      Returned(Failure("SpotifyError", ""),
               <<TokenCall(c), Failed("spotify.get_current_song", "token", "SpotifyError")>>),
      Returned(Reply("not configured for this channel"), <<TokenMissing(c)>>),
      Returned(Failure("DBError", ""), <<TokenError(c)>>) }

\* get_spotify_playlist, lines 157-174
get_spotify_playlist(c) ==
    { Returned(Reply("playlist"),
               <<TokenCall(c), Call("spotify.get_current_playlist", "token")>>),
      Returned(Reply("not currently playing a playlist"),
               <<TokenCall(c), Call("spotify.get_current_playlist", "token")>>),
      Returned(Failure("SpotifyError", ""),
               <<TokenCall(c), Failed("spotify.get_current_playlist", "token", "SpotifyError")>>),
      Returned(Reply("not configured for this channel"), <<TokenMissing(c)>>),
      Returned(Failure("DBError", ""), <<TokenError(c)>>) }

\* get_spotify_last_song, lines 176-193
get_spotify_last_song(c) ==
    { Returned(Reply("last song"),
               <<TokenCall(c), Call("spotify.get_recently_played", "token")>>),
      Returned(Reply("error getting last song: " \o "SpotifyError"),
               <<TokenCall(c), Failed("spotify.get_recently_played", "token", "SpotifyError")>>),
      Returned(Reply("not configured for this channel"), <<TokenMissing(c)>>),
      Returned(Failure("DBError", ""), <<TokenError(c)>>) }

\* run_ad, lines 280-287
run_ad(c, duration) ==
    IF duration = 60 \/ duration = 120 \/ duration = 180
    THEN { Returned(Reply("Running an ad for " \o NatToStr(duration) \o " seconds"),
                    <<Call("twitch_api.run_ad", <<c, duration>>)>>),
           Returned(Failure("TwitchApiError", ""),
                    <<Failed("twitch_api.run_ad", <<c, duration>>, "TwitchApiError")>>) }
    ELSE { Returned(Reply("Invalid ad duration"), <<>>) }

\* get_weather, lines 289-303
get_weather(location) ==
    LET call == <<Call("weather.get_weather", location)>>
        notFound == <<Failed("weather.get_weather", location, "InvalidLocation")>>
        failed == <<Failed("weather.get_weather", location, "WeatherError")>>
    IN  { Returned(Reply("Oslo" \o ", " \o "NO" \o ": " \o "3" \o " C, " \o "rain"), call),
          Returned(Reply("Oslo" \o ", " \o "" \o ": " \o "3" \o " C, " \o "rain"), call),
          Returned(UnwrapNone, call),
          Returned(Reply("location not found"), notFound),
          Returned(Reply("Failed getting weather: " \o "WeatherError"), failed) }

\* translate returning the translator's error with `?`
translate_Propagates(text) ==
    { Returned(Reply("en" \o " -> " \o "de" \o ": " \o "text"),
               <<Call("translator.translate", text)>>),
      Returned(Failure("TranslationError", ""),
               <<Failed("translator.translate", text, "TranslationError")>>) }

\* translate, lines 305-313
translate(text) ==
    LET call == <<Call("translator.translate", text)>>
        failed == <<Failed("translator.translate", text, "TranslationError")>>
    IN  { Returned(Reply("en" \o " -> " \o "de" \o ": " \o "text"), call),
          Returned(Reply("error when translating: " \o "TranslationError"), failed) }

\* db_conn.increment_currency(username), line 122
increment_currency(username) ==
    LET call == <<Call("db.increment_currency", Str(username))>>
    IN  { [Returned(NoReply, call) EXCEPT
              !.cur = [currency EXCEPT ![username] = currency[username] + 1]]
          : x \in {y \in {0} : currency[username] < MaxCurrency} }
        \cup { Returned(Failure("DBError", ""),
                          <<Failed("db.increment_currency", Str(username), "DBError")>>) }

\* db_conn.get_currency(username), line 130
get_currency(username) ==
    LET call == <<Call("db.get_currency", Str(username))>>
    IN  { Returned(Reply(NatToStr(currency[username])), call),
          Returned(Failure("DBError", ""),
                   <<Failed("db.get_currency", Str(username), "DBError")>>) }

(***************************************************************************)
(* run(), lines 74-140: the match on the action name.  The timed handlers  *)
(* are entered at their first statement and continue in the actions below. *)
(***************************************************************************)
\* lines 87-93: the hitman arm
RunHitman(args) ==
    IF args # <<>>
    THEN { Entry("h_add", ReplaceAt(args[1]), <<>>, Pending, <<>>) }
    ELSE { Returned(Reply("user not specified"), <<>>) }

\* lines 94-100: the bodyguard arm
RunBodyguard(args) ==
    IF args # <<>>
    THEN { Entry("b_set", ReplaceAt(args[1]), <<>>, Pending, <<>>) }
    ELSE { Returned(Reply("user not specified"), <<>>) }

\* lines 102-105: run_ad(channel, args.first().unwrap().parse().unwrap())
RunCommercial(args, channel) ==
    IF args = <<>> THEN { Returned(UnwrapNone, <<>>) }
    ELSE IF ~ParseU8(args[1]).ok THEN { Returned(UnwrapErr, <<>>) }
    ELSE run_ad(channel, ParseU8(args[1]).val)

\* the weather arm looking the joined arguments up without the is_empty test
RunWeather_NoCheck(args) == get_weather(Join(args))

\* lines 106-109: the weather arm
RunWeather(args) ==
    IF args # <<>>
    THEN get_weather(Join(args))
    ELSE { Returned(Reply("location not specified"), <<>>) }

\* line 110: translate(args.first().unwrap())
RunTranslate(args) ==
    IF args = <<>> THEN { Returned(UnwrapNone, <<>>) }
    ELSE translate(Str(args[1]))

\* the emoteonly arm entering emote_only whatever the parse returned
RunEmoteonly_Unchecked(args) ==
    IF args = <<>> THEN { Returned(UnwrapNone, <<>>) }
    ELSE { Entry("e_say", <<>>, ParseU64(args[1]).val, Pending, <<>>) }

\* lines 111-119: the emoteonly arm; emote_only is entered at its first send
RunEmoteonly(args) ==
    IF args = <<>> THEN { Returned(UnwrapNone, <<>>) }
    ELSE IF ParseU64(args[1]).ok
    THEN { Entry("e_say", <<>>, ParseU64(args[1]).val, Pending, <<>>) }
    ELSE { Returned(Failure("ExecutionError", "invalid duration"), <<>>) }

\* lines 120-128: the increment arm
RunIncrement(args) ==
    IF args # <<>>
    THEN increment_currency(args[1])
    ELSE { Returned(Failure("ExecutionError", "Missing username"), <<>>) }

\* lines 129-134: the currency arm
RunCurrency(args) ==
    IF args # <<>>
    THEN get_currency(args[1])
    ELSE { Returned(Failure("ExecutionError", "Missing username"), <<>>) }

\* the default arm answering like ping
RunUnknown_Pong(action) == { Returned(Reply("pong"), <<>>) }

\* lines 135-138: the default arm
RunUnknown(action) ==
    { Returned(Failure("ExecutionError", "unknown action " \o action), <<>>) }

run(action, args, channel) ==
    CASE action = "spotify" -> get_spotify(channel)
      [] action = "spotify.playlist" -> get_spotify_playlist(channel)
      [] action = "lastsong" -> get_spotify_last_song(channel)
      [] action = "hitman" -> RunHitman(args)
      [] action = "bodyguard" -> RunBodyguard(args)
      [] action = "ping" -> { Returned(Reply("pong"), <<>>) }
      [] action = "commercial" -> RunCommercial(args, channel)
      [] action = "weather" -> RunWeather(args)
      [] action = "translate" -> RunTranslate(args)
      [] action = "emoteonly" -> RunEmoteonly(args)
      [] action = "increment" -> RunIncrement(args)
      [] action = "currency" -> RunCurrency(args)
      [] OTHER -> RunUnknown(action)

(***************************************************************************)
(* Initial state: no invocation yet, an empty channel with its receiver    *)
(* alive, no hitman record and no currency.                                *)
(***************************************************************************)
Init ==
    /\ inv = [i \in Inv |-> Idle]
    /\ hist = [i \in Inv |-> NoHist]
    /\ db = [k \in Keys |-> "none"]
    /\ currency = [t \in Usernames |-> 0]
    /\ chan = <<>>
    /\ rxClosed = FALSE
    /\ emoteMode = [c \in Channels |-> ""]

(***************************************************************************)
(* The hitman records behind the persistence port (db_conn).               *)
(***************************************************************************)
\* add_hitman(channel, user): the record is created or reset, protected=false
add_hitman(channel, user) == [db EXCEPT ![<<channel, user>>] = "false"]

\* set_hitman_protection(user, channel, protected)
set_hitman_protection(user, channel, protected) ==
    [db EXCEPT ![<<channel, user>>] = IF protected THEN "true" ELSE "false"]

\* get_hitman_protected(user, channel): the flag of the record
get_hitman_protected(user, channel) == db[<<channel, user>>]

InFlight(i) == inv[i].pc \notin {"idle", "done"}

Key(i) == <<inv[i].channel, inv[i].user>>

\* hitman i runs: it was entered and has not returned
HitmanRuns(i) == inv[i].action = "hitman" /\ InFlight(i)

BodyguardRuns(i) == inv[i].action = "bodyguard" /\ InFlight(i)

(***************************************************************************)
(* run() is called: the caller spawns one more invocation.                 *)
(***************************************************************************)
\* the slot of the next invocation
NextSlot(i) == inv[i].pc = "idle" /\ \A j \in Inv : j < i => inv[j].pc # "idle"

\* run() is called with one of the requests reqs, at most n times
RunOf(reqs, n) ==
    \E i \in 1..n :
      /\ NextSlot(i)
      /\ \E r \in reqs :
          \E e \in run(r.action, r.args, r.channel) :
            LET k == <<r.channel, e.user>>
                sameH == {j \in Inv : HitmanRuns(j) /\ Key(j) = k}
                sameB == {j \in Inv : BodyguardRuns(j) /\ Key(j) = k}
            IN  /\ inv' = [inv EXCEPT ![i] =
                              [pc |-> e.pc, action |-> r.action, args |-> r.args,
                               channel |-> r.channel, user |-> e.user,
                               dur |-> e.dur, result |-> e.result,
                               calls |-> e.calls, sent |-> <<>>, got |-> <<>>]]
                /\ currency' = e.cur
                /\ hist' = [j \in Inv |->
                      IF j = i
                      THEN [NoHist EXCEPT
                              !.parked = {h \in Inv : inv[h].pc = "h_sleep"},
                              !.bg = e.pc = "h_add" /\ sameB # {},
                              !.overlap = e.pc = "h_add" /\ sameH # {},
                              !.before = IF e.pc = "h_add" THEN db[k] ELSE ""]
                      ELSE IF j \in sameH /\ e.pc = "b_set"
                      THEN [hist[j] EXCEPT !.bg = TRUE]
                      ELSE IF j \in sameH /\ e.pc = "h_add"
                      THEN [hist[j] EXCEPT !.overlap = TRUE]
                      ELSE hist[j]]
                /\ UNCHANGED <<db, chan, rxClosed, emoteMode>>

Run == RunOf(Requests, MaxInv)

(***************************************************************************)
(* msg_sender.send(msg).await.expect(..) / .unwrap(): the message is       *)
(* buffered when the channel has room, the sender waits while it is full,  *)
(* and the invocation panics when the receiver is gone.                    *)
(***************************************************************************)
\* the Raw directives that switch the emote-only mode of a chat channel
EmoteDirectives == {"/emoteonly", "/emoteonlyoff"}

\* try_send instead of send(..).await: a full channel loses the message and
\* the invocation goes on
Send_DropsWhenFull(i, pc, kind, text, next, result) ==
    /\ inv[i].pc = pc
    /\ \/ /\ ~rxClosed
          /\ chan' = IF Len(chan) < MaxQueue
                     THEN Append(chan, Msg(i, kind, inv[i].channel, text))
                     ELSE chan
          /\ inv' = [inv EXCEPT
                       ![i].pc = next,
                       ![i].result = result,
                       ![i].sent = Append(@, Msg(i, kind, inv[i].channel, text))]
          /\ hist' = [hist EXCEPT
                        ![i].armed = @ \/ next \in {"h_sleep", "e_sleep"}]
          /\ emoteMode' = IF kind = "Raw" /\ text \in EmoteDirectives
                          THEN [emoteMode EXCEPT ![inv[i].channel] = text]
                          ELSE emoteMode
       \/ /\ rxClosed
          /\ chan' = chan
          /\ inv' = [inv EXCEPT ![i].pc = "done",
                                ![i].result = Panic("Failed to send")]
          /\ hist' = hist
          /\ emoteMode' = emoteMode
    /\ UNCHANGED <<db, currency, rxClosed>>

Send(i, pc, kind, text, next, result) ==
    /\ inv[i].pc = pc
    /\ \/ /\ ~rxClosed
          /\ Len(chan) < MaxQueue
          /\ chan' = Append(chan, Msg(i, kind, inv[i].channel, text))
          /\ inv' = [inv EXCEPT
                       ![i].pc = next,
                       ![i].result = result,
                       ![i].sent = Append(@, Msg(i, kind, inv[i].channel, text))]
          /\ hist' = [hist EXCEPT
                        ![i].armed = @ \/ next \in {"h_sleep", "e_sleep"}]
          /\ emoteMode' = IF kind = "Raw" /\ text \in EmoteDirectives
                          THEN [emoteMode EXCEPT ![inv[i].channel] = text]
                          ELSE emoteMode
       \/ /\ rxClosed
          /\ chan' = chan
          /\ inv' = [inv EXCEPT ![i].pc = "done",
                                ![i].result = Panic("Failed to send")]
          /\ hist' = hist
          /\ emoteMode' = emoteMode
    /\ UNCHANGED <<db, currency, rxClosed>>

\* a persistence call of invocation i failed: `?` returns the error
DbFails(i, op) ==
    /\ inv' = [inv EXCEPT ![i].pc = "done",
                          ![i].result = Failure("DBError", ""),
                          ![i].calls = Append(@, Failed(op, Key(i), "DBError"))]
    /\ hist' = [hist EXCEPT ![i].dbfail = op]
    /\ UNCHANGED <<db, currency, chan, rxClosed, emoteMode>>

(***************************************************************************)
(* hitman, lines 195-231.                                                  *)
(***************************************************************************)
\* HitmanAdd going on to the countdown although add_hitman failed
HitmanAdd_ErrorIgnored(i) ==
    /\ inv[i].pc = "h_add"
    /\ \/ /\ db' = add_hitman(inv[i].channel, inv[i].user)
          /\ inv' = [inv EXCEPT ![i].pc = "h_say",
                                ![i].calls = Append(@, Call("db.add_hitman", Key(i)))]
          /\ UNCHANGED <<currency, chan, rxClosed, emoteMode, hist>>
       \/ /\ inv' = [inv EXCEPT ![i].pc = "h_say",
                                ![i].calls = Append(@, Call("db.add_hitman", Key(i)))]
          /\ hist' = [hist EXCEPT ![i].dbfail = "db.add_hitman"]
          /\ UNCHANGED <<db, currency, chan, rxClosed, emoteMode>>

\* HitmanAdd creating the record only when the user has none
HitmanAdd_KeepsRecord(i) ==
    /\ inv[i].pc = "h_add"
    /\ \/ /\ db' = IF get_hitman_protected(inv[i].user, inv[i].channel) = "none"
                   THEN add_hitman(inv[i].channel, inv[i].user)
                   ELSE db
          /\ inv' = [inv EXCEPT ![i].pc = "h_say",
                                ![i].calls = Append(@, Call("db.add_hitman", Key(i)))]
          /\ UNCHANGED <<currency, chan, rxClosed, emoteMode, hist>>
       \/ DbFails(i, "db.add_hitman")

\* line 201: self.db_conn.add_hitman(channel, user)?
HitmanAdd(i) ==
    /\ inv[i].pc = "h_add"
    /\ \/ /\ db' = add_hitman(inv[i].channel, inv[i].user)
          /\ inv' = [inv EXCEPT ![i].pc = "h_say",
                                ![i].calls = Append(@, Call("db.add_hitman", Key(i)))]
          /\ UNCHANGED <<currency, chan, rxClosed, emoteMode, hist>>
       \/ DbFails(i, "db.add_hitman")

\* lines 203-209: the countdown Say
HitmanSay(i) ==
    Send(i, "h_say", "Say",
         "Timing out " \o Str(inv[i].user) \o " in 15 seconds...",
         "h_sleep", Pending)

\* a delay that a protection written meanwhile aborts: the invocation is
\* dropped and returns nothing
HitmanSleep_AbortedByGuard(i) ==
    /\ inv[i].pc = "h_sleep"
    /\ inv' = [inv EXCEPT ![i].pc =
                  IF get_hitman_protected(inv[i].user, inv[i].channel) = "true"
                  THEN "done" ELSE "h_read"]
    /\ UNCHANGED <<db, currency, chan, rxClosed, emoteMode, hist>>

\* line 211: sleep(Duration::from_secs(15)).await returns
HitmanSleep(i) ==
    /\ inv[i].pc = "h_sleep"
    /\ inv' = [inv EXCEPT ![i].pc = "h_read"]
    /\ UNCHANGED <<db, currency, chan, rxClosed, emoteMode, hist>>

\* HitmanRead with the arms of the match exchanged
HitmanRead_ArmsSwapped(i) ==
    /\ inv[i].pc = "h_read"
    /\ \/ /\ get_hitman_protected(inv[i].user, inv[i].channel) # "none"
          /\ inv' = [inv EXCEPT
                       ![i].pc = IF get_hitman_protected(inv[i].user, inv[i].channel) = "true"
                                 THEN "h_raw" ELSE "h_clear",
                       ![i].calls = Append(@, Call("db.get_hitman_protected", Key(i)))]
          /\ hist' = [hist EXCEPT
                        ![i].read = get_hitman_protected(inv[i].user, inv[i].channel)]
          /\ UNCHANGED <<db, currency, chan, rxClosed, emoteMode>>
       \/ DbFails(i, "db.get_hitman_protected")

\* line 213: match self.db_conn.get_hitman_protected(user, channel)?
HitmanRead(i) ==
    /\ inv[i].pc = "h_read"
    /\ \/ /\ get_hitman_protected(inv[i].user, inv[i].channel) # "none"
          /\ inv' = [inv EXCEPT
                       ![i].pc = IF get_hitman_protected(inv[i].user, inv[i].channel) = "true"
                                 THEN "h_clear" ELSE "h_raw",
                       ![i].calls = Append(@, Call("db.get_hitman_protected", Key(i)))]
          /\ hist' = [hist EXCEPT
                        ![i].read = get_hitman_protected(inv[i].user, inv[i].channel)]
          /\ UNCHANGED <<db, currency, chan, rxClosed, emoteMode>>
       \/ DbFails(i, "db.get_hitman_protected")

\* HitmanRaw reading the flag again before it sends the directive
HitmanRaw_Rechecks(i) ==
    \/ /\ inv[i].pc = "h_raw"
       /\ get_hitman_protected(inv[i].user, inv[i].channel) = "false"
       /\ Send(i, "h_raw", "Raw",
               "/timeout " \o Str(inv[i].user) \o " 600",
               "done", Reply(Str(inv[i].user) \o " timed out for 10 minutes!"))
    \/ /\ inv[i].pc = "h_raw"
       /\ get_hitman_protected(inv[i].user, inv[i].channel) # "false"
       /\ inv' = [inv EXCEPT ![i].pc = "h_clear"]
       /\ UNCHANGED <<db, currency, chan, rxClosed, emoteMode, hist>>

\* lines 215-223: the Raw timeout directive, then Ok("<user> timed out ...")
HitmanRaw(i) ==
    Send(i, "h_raw", "Raw",
         "/timeout " \o Str(inv[i].user) \o " 600",
         "done", Reply(Str(inv[i].user) \o " timed out for 10 minutes!"))

\* HitmanClear writing protected=true back
HitmanClear_WritesTrue(i) ==
    /\ inv[i].pc = "h_clear"
    /\ \/ /\ db' = set_hitman_protection(inv[i].user, inv[i].channel, TRUE)
          /\ inv' = [inv EXCEPT
                       ![i].pc = "done",
                       ![i].result = Reply(""),
                       ![i].calls = Append(@, Call("db.set_hitman_protection",
                                                   <<Key(i), FALSE>>))]
          /\ hist' = [hist EXCEPT ![i].cleared = TRUE]
          /\ UNCHANGED <<currency, chan, rxClosed, emoteMode>>
       \/ DbFails(i, "db.set_hitman_protection")

\* lines 226-228: set_hitman_protection(user, channel, &false)?, Ok(String::new())
HitmanClear(i) ==
    /\ inv[i].pc = "h_clear"
    /\ \/ /\ db' = set_hitman_protection(inv[i].user, inv[i].channel, FALSE)
          /\ inv' = [inv EXCEPT
                       ![i].pc = "done",
                       ![i].result = Reply(""),
                       ![i].calls = Append(@, Call("db.set_hitman_protection",
                                                   <<Key(i), FALSE>>))]
          /\ hist' = [hist EXCEPT ![i].cleared = TRUE]
          /\ UNCHANGED <<currency, chan, rxClosed, emoteMode>>
       \/ DbFails(i, "db.set_hitman_protection")

(***************************************************************************)
(* bodyguard, lines 233-250.                                               *)
(***************************************************************************)
\* BodyguardSet writing protected=false
BodyguardSet_Unprotects(i) ==
    /\ inv[i].pc = "b_set"
    /\ \/ /\ db' = set_hitman_protection(inv[i].user, inv[i].channel, FALSE)
          /\ inv' = [inv EXCEPT
                       ![i].pc = "b_say",
                       ![i].calls = Append(@, Call("db.set_hitman_protection",
                                                   <<Key(i), TRUE>>))]
          /\ hist' = [j \in Inv |->
                IF HitmanRuns(j) /\ Key(j) = Key(i)
                   /\ inv[j].pc \in {"h_say", "h_sleep", "h_read"}
                THEN [hist[j] EXCEPT !.guards = @ \cup {i}]
                ELSE IF HitmanRuns(j) /\ Key(j) = Key(i) /\ inv[j].pc = "h_raw"
                THEN [hist[j] EXCEPT !.late = @ \cup {i}]
                ELSE hist[j]]
          /\ UNCHANGED <<currency, chan, rxClosed, emoteMode>>
       \/ DbFails(i, "db.set_hitman_protection")

\* BodyguardSet protecting the user in every channel
BodyguardSet_EveryChannel(i) ==
    /\ inv[i].pc = "b_set"
    /\ \/ /\ db' = [k \in Keys |-> IF k[2] = inv[i].user THEN "true" ELSE db[k]]
          /\ inv' = [inv EXCEPT
                       ![i].pc = "b_say",
                       ![i].calls = Append(@, Call("db.set_hitman_protection",
                                                   <<Key(i), TRUE>>))]
          /\ hist' = [j \in Inv |->
                IF HitmanRuns(j) /\ Key(j) = Key(i)
                   /\ inv[j].pc \in {"h_say", "h_sleep", "h_read"}
                THEN [hist[j] EXCEPT !.guards = @ \cup {i}]
                ELSE IF HitmanRuns(j) /\ Key(j) = Key(i) /\ inv[j].pc = "h_raw"
                THEN [hist[j] EXCEPT !.late = @ \cup {i}]
                ELSE hist[j]]
          /\ UNCHANGED <<currency, chan, rxClosed, emoteMode>>
       \/ DbFails(i, "db.set_hitman_protection")

\* line 239: self.db_conn.set_hitman_protection(user, channel, &true)?
BodyguardSet(i) ==
    /\ inv[i].pc = "b_set"
    /\ \/ /\ db' = set_hitman_protection(inv[i].user, inv[i].channel, TRUE)
          /\ inv' = [inv EXCEPT
                       ![i].pc = "b_say",
                       ![i].calls = Append(@, Call("db.set_hitman_protection",
                                                   <<Key(i), TRUE>>))]
          /\ hist' = [j \in Inv |->
                IF HitmanRuns(j) /\ Key(j) = Key(i)
                   /\ inv[j].pc \in {"h_say", "h_sleep", "h_read"}
                THEN [hist[j] EXCEPT !.guards = @ \cup {i}]
                ELSE IF HitmanRuns(j) /\ Key(j) = Key(i) /\ inv[j].pc = "h_raw"
                THEN [hist[j] EXCEPT !.late = @ \cup {i}]
                ELSE hist[j]]
          /\ UNCHANGED <<currency, chan, rxClosed, emoteMode>>
       \/ DbFails(i, "db.set_hitman_protection")

\* lines 241-249: the confirmation Say, then Ok(String::new())
BodyguardSay(i) ==
    Send(i, "b_say", "Say", Str(inv[i].user) \o " has been guarded!",
         "done", Reply(""))

(***************************************************************************)
(* emote_only, lines 252-278, and the Ok(None) of run(), line 114.         *)
(***************************************************************************)
\* emote_only enabling emote-only before it announces the window
EmoteSay_RawFirst(i) == Send(i, "e_say", "Raw", "/emoteonly", "e_on", Pending)

\* lines 253-259: the announcement Say
EmoteSay(i) ==
    Send(i, "e_say", "Say",
         "Emote-only enabled for " \o Str(inv[i].dur) \o " seconds!",
         "e_on", Pending)

\* run() returning Ok(None) once the window is open, emote_only going on
\* by itself
EmoteOn_ReturnsEarly(i) == Send(i, "e_on", "Raw", "/emoteonly", "e_sleep", NoReply)

\* lines 261-267: the Raw enabling emote-only
EmoteOn(i) == Send(i, "e_on", "Raw", "/emoteonly", "e_sleep", Pending)

\* line 269: sleep(Duration::from_secs(duration)).await returns
EmoteSleep(i) ==
    /\ inv[i].pc = "e_sleep"
    /\ inv' = [inv EXCEPT ![i].pc = "e_off"]
    /\ UNCHANGED <<db, currency, chan, rxClosed, emoteMode, hist>>

\* emote_only ending with the directive that enables emote-only
EmoteOff_EnablesAgain(i) == Send(i, "e_off", "Raw", "/emoteonly", "done", NoReply)

\* lines 271-277: the Raw disabling emote-only; run() returns Ok(None)
EmoteOff(i) == Send(i, "e_off", "Raw", "/emoteonlyoff", "done", NoReply)

(***************************************************************************)
(* The receiving half of the channel: the bot's sender task.               *)
(***************************************************************************)
\* the consumer takes the oldest buffered message
Consume ==
    /\ ~rxClosed
    /\ chan # <<>>
    /\ inv' = [inv EXCEPT ![Head(chan).id].got = Append(@, Head(chan))]
    /\ chan' = Tail(chan)
    /\ UNCHANGED <<db, currency, rxClosed, emoteMode, hist>>

\* the consumer goes away: the receiver is dropped with what it buffered
CloseReceiver ==
    /\ ~rxClosed
    /\ rxClosed' = TRUE
    /\ chan' = <<>>
    /\ UNCHANGED <<inv, db, currency, emoteMode, hist>>

\* a delay that keeps the executor: nothing else is polled meanwhile
Pollable_BlockingSleep(i) ==
    InFlight(i) /\ \A j \in Inv \ {i} : inv[j].pc \notin {"h_sleep", "e_sleep"}

\* tokio polls any invocation that has not returned: sleep(..).await and
\* send(..).await suspend the awaiting invocation only, not the executor
Pollable(i) == InFlight(i)

\* one step of invocation i
Step(i) ==
    \/ Pollable(i) /\ HitmanAdd(i)
    \/ Pollable(i) /\ HitmanSay(i)
    \/ Pollable(i) /\ HitmanSleep(i)
    \/ Pollable(i) /\ HitmanRead(i)
    \/ Pollable(i) /\ HitmanRaw(i)
    \/ Pollable(i) /\ HitmanClear(i)
    \/ Pollable(i) /\ BodyguardSet(i)
    \/ Pollable(i) /\ BodyguardSay(i)
    \/ Pollable(i) /\ EmoteSay(i)
    \/ Pollable(i) /\ EmoteOn(i)
    \/ Pollable(i) /\ EmoteSleep(i)
    \/ Pollable(i) /\ EmoteOff(i)

Next ==
    \/ Run
    \/ \E i \in Inv : Step(i)
    \/ Consume
    \/ CloseReceiver

Spec == Init /\ [][Next]_vars

(***************************************************************************)
(* The behaviours in which the consumer of the channel stays alive and     *)
(* every invocation is one of the timed handlers.  tokio polls every       *)
(* invocation that can proceed (a timer that has expired, a send that has  *)
(* room, a persistence call that answers), and the consumer keeps          *)
(* receiving.                                                              *)
(***************************************************************************)
TimedActions == {"hitman", "bodyguard", "emoteonly"}

TimedRequests == {r \in Requests : r.action \in TimedActions}

RunTimed == RunOf(TimedRequests, MaxInv)

NextLive ==
    \/ RunTimed
    \/ \E i \in Inv : Step(i)
    \/ Consume

Fairness ==
    /\ \A i \in Inv : WF_vars(Step(i))
    /\ WF_vars(Consume)

LiveSpec == Init /\ [][NextLive]_vars /\ Fairness

(***************************************************************************)
(* The behaviours in which every invocation is a hitman or a bodyguard for *)
(* the same user of the same channel.                                      *)
(***************************************************************************)
RaceRequests ==
    {r \in Requests :
        r.action \in {"hitman", "bodyguard"} /\ r.args = <<Bob>> /\ r.channel = "c1"}

RunRace == RunOf(RaceRequests, MaxRace)

\* one step of invocation i of hitman or bodyguard
StepRace(i) ==
    \/ Pollable(i) /\ HitmanAdd(i)
    \/ Pollable(i) /\ HitmanSay(i)
    \/ Pollable(i) /\ HitmanSleep(i)
    \/ Pollable(i) /\ HitmanRead(i)
    \/ Pollable(i) /\ HitmanRaw(i)
    \/ Pollable(i) /\ HitmanClear(i)
    \/ Pollable(i) /\ BodyguardSet(i)
    \/ Pollable(i) /\ BodyguardSay(i)

NextRace ==
    \/ RunRace
    \/ \E i \in Inv : StepRace(i)
    \/ Consume
    \/ CloseReceiver

RaceSpec == Init /\ [][NextRace]_vars

(***************************************************************************)
(* Vocabulary of the properties.                                           *)
(***************************************************************************)
\* invocation i entered the hitman handler (line 89) / the bodyguard handler
\* (line 96) / emote_only (line 113)
HitmanCall(i) == inv[i].action = "hitman" /\ inv[i].args # <<>>
BodyguardCall(i) == inv[i].action = "bodyguard" /\ inv[i].args # <<>>
EmoteCall(i) ==
    inv[i].action = "emoteonly" /\ inv[i].args # <<>> /\ ParseU64(inv[i].args[1]).ok

Done(i) == inv[i].pc = "done"

\* the messages an invocation of hitman for (channel, user) may enqueue
CountdownSay(i) ==
    Msg(i, "Say", inv[i].channel,
        "Timing out " \o Str(inv[i].user) \o " in 15 seconds...")
TimeoutRaw(i) ==
    Msg(i, "Raw", inv[i].channel, "/timeout " \o Str(inv[i].user) \o " 600")

\* the Raw timeout directives invocation i has enqueued
RawTimeouts(i) ==
    {k \in 1..Len(inv[i].sent) :
        inv[i].sent[k].kind = "Raw" /\ inv[i].sent[k].text = TimeoutRaw(i).text}

TimedOutReply(i) == Reply(Str(inv[i].user) \o " timed out for 10 minutes!")

\* hitman i ended by timing the user out: one countdown Say, the delay, then
\* one Raw
TimedOut(i) ==
    /\ hist[i].armed
    /\ inv[i].sent = <<CountdownSay(i), TimeoutRaw(i)>>
    /\ inv[i].result = TimedOutReply(i)

(***************************************************************************)
(* C1 as stated: a hitman(C,U) with no bodyguard(C,U) in flight during its *)
(* lifetime always ends with the countdown Say, one Raw timeout directive  *)
(* and the reply "<U> timed out for 10 minutes!".                          *)
(***************************************************************************)
C1_AlwaysTimesOut ==
    \A i \in Inv : HitmanCall(i) /\ Done(i) /\ ~hist[i].bg => TimedOut(i)

(***************************************************************************)
(* C1, amended: a hitman(C,U) with no bodyguard(C,U) in flight during its  *)
(* lifetime, whose persistence calls succeed and whose sends find the      *)
(* receiver alive, ends with the countdown Say, exactly one Raw timeout    *)
(* directive for U on C and the reply "<U> timed out for 10 minutes!",     *)
(* whatever the flag was before; otherwise it ends in Failure(DBError) or  *)
(* in the panic of the failed send, with at most the countdown Say sent.   *)
(***************************************************************************)
C1_TimesOutUnlessFault ==
    \A i \in Inv :
        HitmanCall(i) /\ Done(i) /\ ~hist[i].bg =>
            \/ TimedOut(i)
            \/ /\ hist[i].dbfail \in {"db.add_hitman", "db.get_hitman_protected"}
               /\ inv[i].result = Failure("DBError", "")
               /\ RawTimeouts(i) = {}
            \/ /\ inv[i].result = Panic("Failed to send")
               /\ hist[i].dbfail = ""
               /\ RawTimeouts(i) = {}

\* a hitman that found protected=true left by an earlier bodyguard, met no
\* bodyguard and no fault, and timed the user out
C1_Witness ==
    \E i \in Inv :
        /\ HitmanCall(i) /\ Done(i) /\ ~hist[i].bg
        /\ hist[i].before = "true"
        /\ TimedOut(i)

(***************************************************************************)
(* C2 as stated: when a bodyguard(C,U) wrote its protection after          *)
(* hitman(C,U) persisted its record and before the hitman's delayed read,  *)
(* with no other hitman(C,U) in flight, the hitman enqueues no Raw timeout *)
(* directive, writes protected=false back and returns Reply("").           *)
(***************************************************************************)
\* hitman i has made its delayed read
ReadAttempted(i) ==
    hist[i].read # "" \/ hist[i].dbfail = "db.get_hitman_protected"

\* a bodyguard's write landed between hitman i's record creation and its
\* delayed read, and no other hitman for the same user was in flight
GuardedInTime(i) ==
    /\ HitmanCall(i) /\ Done(i)
    /\ hist[i].guards # {}
    /\ ~hist[i].overlap
    /\ ReadAttempted(i)

\* the persistence calls of a hitman that found the user protected
ProtectedCalls(i) ==
    <<Call("db.add_hitman", Key(i)),
      Call("db.get_hitman_protected", Key(i)),
      Call("db.set_hitman_protection", <<Key(i), FALSE>>)>>

C2_GuardedIsSpared ==
    \A i \in Inv :
        GuardedInTime(i) =>
            /\ RawTimeouts(i) = {}
            /\ inv[i].calls = ProtectedCalls(i)
            /\ inv[i].result = Reply("")

(***************************************************************************)
(* C2, amended: in that ordering the hitman enqueues no Raw timeout        *)
(* directive; when its delayed read and its write-back succeed it has read *)
(* protected=true, written protected=false back and returns Reply("");     *)
(* when one of the two calls fails it returns Failure(DBError).            *)
(***************************************************************************)
C2_GuardedIsSparedUnlessFault ==
    \A i \in Inv :
        GuardedInTime(i) =>
            /\ RawTimeouts(i) = {}
            /\ inv[i].sent = <<CountdownSay(i)>>
            /\ \/ /\ hist[i].read = "true"
                  /\ hist[i].cleared
                  /\ inv[i].calls = ProtectedCalls(i)
                  /\ inv[i].result = Reply("")
               \/ /\ hist[i].dbfail \in
                        {"db.get_hitman_protected", "db.set_hitman_protection"}
                  /\ ~hist[i].cleared
                  /\ inv[i].result = Failure("DBError", "")

\* a hitman spared by a bodyguard that wrote inside its delay window
C2_Witness ==
    \E i \in Inv :
        /\ GuardedInTime(i)
        /\ hist[i].cleared
        /\ inv[i].result = Reply("")
        /\ db[Key(i)] = "false"

(***************************************************************************)
(* C4: the race is reachable.  Whenever the write of one bodyguard(C,U)    *)
(* landed after the delayed read of one hitman(C,U) had returned false and *)
(* both have returned from their sends, the hitman has enqueued the Raw    *)
(* timeout directive for U, the bodyguard has announced that U is guarded  *)
(* and the record is left with protected=true.                             *)
(***************************************************************************)
GuardedSay(j) ==
    Msg(j, "Say", inv[j].channel, Str(inv[j].user) \o " has been guarded!")

\* i and j are the only hitman and bodyguard invoked for their user
OnlyPair(i, j) ==
    \A k \in Inv \ {i, j} :
        (HitmanCall(k) \/ BodyguardCall(k)) => Key(k) # Key(i)

\* bodyguard j wrote after hitman i's read returned false; both are done
LostGuard(i, j) ==
    /\ HitmanCall(i) /\ BodyguardCall(j) /\ Key(i) = Key(j)
    /\ j \in hist[i].late
    /\ Done(i) /\ Done(j)
    /\ OnlyPair(i, j)

C4_RaceLosesProtection ==
    \A i, j \in Inv :
        LostGuard(i, j) /\ inv[i].result.tag # "Panic" /\ inv[j].result.tag # "Panic" =>
            /\ hist[i].read = "false"
            /\ TimedOut(i)
            /\ inv[j].sent = <<GuardedSay(j)>>
            /\ inv[j].result = Reply("")
            /\ db[Key(i)] = "true"

\* the interleaving of the race: the user is timed out, announced as
\* guarded, and the record stays protected
C4_Witness ==
    \E i, j \in Inv :
        /\ LostGuard(i, j)
        /\ TimedOut(i)
        /\ inv[j].sent = <<GuardedSay(j)>>
        /\ db[Key(i)] = "true"

(***************************************************************************)
(* C5: the persistence write comes first.  A hitman whose add_hitman       *)
(* failed and a bodyguard whose set_hitman_protection failed return        *)
(* Failure(DBError) having enqueued nothing and started no delay; a hitman *)
(* whose delayed read failed returns Failure(DBError) and has enqueued no  *)
(* Raw timeout directive.                                                  *)
(***************************************************************************)
C5_WriteIsFirstEffect ==
    \A i \in Inv :
        /\ ( \/ HitmanCall(i) /\ hist[i].dbfail = "db.add_hitman"
             \/ BodyguardCall(i) /\ hist[i].dbfail = "db.set_hitman_protection" )
           => /\ Done(i)
              /\ inv[i].result = Failure("DBError", "")
              /\ inv[i].sent = <<>>
              /\ ~hist[i].armed
              /\ Len(inv[i].calls) = 1
        /\ HitmanCall(i) /\ hist[i].dbfail = "db.get_hitman_protected"
           => /\ Done(i)
              /\ inv[i].result = Failure("DBError", "")
              /\ RawTimeouts(i) = {}

\* a hitman whose record creation failed, next to a hitman or bodyguard
\* whose later persistence call failed
C5_Witness ==
    \E i, j \in Inv :
        /\ HitmanCall(i) /\ hist[i].dbfail = "db.add_hitman" /\ inv[i].sent = <<>>
        /\ \/ HitmanCall(j) /\ hist[j].dbfail = "db.get_hitman_protected"
           \/ BodyguardCall(j) /\ hist[j].dbfail = "db.set_hitman_protection"

(***************************************************************************)
(* C3: a hitman parked in its delay blocks nobody.  While a hitman is      *)
(* parked, every other invocation that has not returned can take its next  *)
(* step unless it waits for room in a full channel, and run() can be       *)
(* called as long as the bound on invocations allows.                      *)
(***************************************************************************)
SendPcs == {"h_say", "h_raw", "b_say", "e_say", "e_on", "e_off"}

\* invocation j is suspended in send(..).await on a full channel
WaitsForRoom(j) ==
    inv[j].pc \in SendPcs /\ ~rxClosed /\ Len(chan) >= MaxQueue

Parked(i) == inv[i].pc = "h_sleep"

C3_ParkedBlocksNobody ==
    \A i \in Inv :
        Parked(i) =>
            /\ \A j \in Inv \ {i} :
                  InFlight(j) /\ ~WaitsForRoom(j) => ENABLED Step(j)
            /\ (\E j \in 1..MaxInv : NextSlot(j)) => ENABLED Run

\* a hitman for another user was invoked while hitman i was parked, went
\* through its own delay and timed its user out, and i is still parked
C3_Witness ==
    \E i, j \in Inv :
        /\ Parked(i)
        /\ i \in hist[j].parked
        /\ HitmanCall(j) /\ inv[j].user # inv[i].user
        /\ Done(j) /\ TimedOut(j)

(***************************************************************************)
(* C6: the consumer receives the messages of one invocation in the order   *)
(* the invocation enqueued them: of an emote-only window the announcement, *)
(* then the Raw enabling emote-only, then the Raw disabling it; of a       *)
(* hitman the countdown Say, then the Raw timeout directive.               *)
(***************************************************************************)
IsPrefix(a, b) == Len(a) <= Len(b) /\ a = SubSeq(b, 1, Len(a))

EmoteMsgs(i) ==
    <<Msg(i, "Say", inv[i].channel,
          "Emote-only enabled for " \o Str(inv[i].dur) \o " seconds!"),
      Msg(i, "Raw", inv[i].channel, "/emoteonly"),
      Msg(i, "Raw", inv[i].channel, "/emoteonlyoff")>>

C6_DeliveredInOrder ==
    \A i \in Inv :
        /\ IsPrefix(inv[i].got, inv[i].sent)
        /\ EmoteCall(i) => IsPrefix(inv[i].got, EmoteMsgs(i))
        /\ HitmanCall(i) => IsPrefix(inv[i].got, <<CountdownSay(i), TimeoutRaw(i)>>)

\* an emote-only window was opened while a hitman was parked, and the
\* consumer has received all three messages of the one and both messages of
\* the other
C6_Witness ==
    \E i, j \in Inv :
        /\ EmoteCall(i) /\ inv[i].got = EmoteMsgs(i)
        /\ HitmanCall(j) /\ inv[j].got = <<CountdownSay(j), TimeoutRaw(j)>>
        /\ j \in hist[i].parked

(***************************************************************************)
(* C7: for an action name outside the built-in table run() returns the     *)
(* error naming the action in the step that calls it, with no message      *)
(* enqueued, no port called and every record of the database unchanged,    *)
(* and the invocation does nothing afterwards.                             *)
(***************************************************************************)
UnknownFailure(i) ==
    /\ inv[i].pc = "done"
    /\ inv[i].result = Failure("ExecutionError", "unknown action " \o inv[i].action)
    /\ inv[i].sent = <<>>
    /\ inv[i].calls = <<>>

UnknownCalled(i) ==
    /\ inv[i].pc = "idle"
    /\ inv'[i].pc # "idle"
    /\ inv'[i].action \notin BuiltIns

C7_UnknownActionFails ==
    /\ [](\A i \in Inv :
            inv[i].pc # "idle" /\ inv[i].action \notin BuiltIns => UnknownFailure(i))
    /\ [][\A i \in Inv :
            UnknownCalled(i) => db' = db /\ currency' = currency /\ chan' = chan]_vars

\* an unknown action called with an argument while a record is protected
C7_Witness ==
    \E i \in Inv :
        /\ inv[i].action = "dance" /\ inv[i].args # <<>>
        /\ UnknownFailure(i)
        /\ \E k \in Keys : db[k] = "true"

(***************************************************************************)
(* C8 as stated: every built-in action that requires an argument, called   *)
(* with an empty argument list, returns a Failure and does not crash.      *)
(***************************************************************************)
NeedsArgument ==
    {"hitman", "bodyguard", "commercial", "translate", "emoteonly",
     "increment", "currency"}

C8_EmptyArgsFail ==
    \A i \in Inv :
        inv[i].action \in NeedsArgument /\ inv[i].args = <<>> =>
            /\ Done(i)
            /\ inv[i].result.tag = "Failure"
            /\ inv[i].result.kind = "ExecutionError"

(***************************************************************************)
(* C9 as stated: a commercial whose duration argument is not 60, 120 or    *)
(* 180 replies "Invalid ad duration" without calling the ad-trigger port,  *)
(* and the port is called with 60, 120 or 180 only.                        *)
(***************************************************************************)
AdDurations == {"60", "120", "180"}

AdCalls(i) ==
    {k \in 1..Len(inv[i].calls) : inv[i].calls[k].port = "twitch_api.run_ad"}

C9_InvalidDurationReplies ==
    \A i \in Inv :
        inv[i].action = "commercial" /\ inv[i].args # <<>> =>
            /\ Str(StripZeros(Unsigned(inv[i].args[1]))) \notin AdDurations =>
                  /\ AdCalls(i) = {}
                  /\ inv[i].result = Reply("Invalid ad duration")
            /\ \A k \in AdCalls(i) : inv[i].calls[k].arg[2] \in {60, 120, 180}

(***************************************************************************)
(* C10: an emoteonly whose duration does not parse as an unsigned integer  *)
(* returns Err("invalid duration") and enqueues nothing.                   *)
(***************************************************************************)
BadDuration(i) ==
    /\ inv[i].action = "emoteonly"
    /\ inv[i].args # <<>>
    /\ ~ParseU64(inv[i].args[1]).ok

C10_BadDurationSendsNothing ==
    \A i \in Inv :
        BadDuration(i) =>
            /\ Done(i)
            /\ inv[i].result = Failure("ExecutionError", "invalid duration")
            /\ inv[i].sent = <<>>
            /\ \A k \in 1..Len(chan) : chan[k].id # i

\* emoteonly called with a name instead of a number while the channel
\* holds messages of another invocation
C10_Witness ==
    \E i \in Inv :
        /\ BadDuration(i)
        /\ inv[i].args[1] = Bob
        /\ inv[i].result.tag = "Failure"
        /\ chan # <<>>

(***************************************************************************)
(* C11 as stated: run("emoteonly", [d]) does not wait for the window.      *)
(* While the emote-only window of an invocation is open (the Raw enabling  *)
(* emote-only is enqueued, the Raw disabling it is not) the caller already *)
(* has its NoReply.                                                        *)
(***************************************************************************)
EmotePcs == {"e_say", "e_on", "e_sleep", "e_off"}

\* the emote-only window of invocation i is open
WindowOpen(i) == EmoteCall(i) /\ inv[i].pc \in {"e_sleep", "e_off"}

HitmanArmed(i) ==
    HitmanCall(i) /\ inv[i].pc \in {"h_say", "h_sleep", "h_read", "h_raw", "h_clear"}

HitmanReturned(i) ==
    /\ Done(i)
    /\ inv[i].result \in {TimedOutReply(i), Reply(""), Failure("DBError", "")}

\* emote-only invocation i has enqueued the Raw enabling emote-only
EmoteArmed(i) == EmoteCall(i) /\ inv[i].pc = "e_sleep"

\* a step leaves a returned result alone
ResultIsFinal(i) ==
    inv[i].result # Pending => inv'[i].result = inv[i].result /\ inv'[i].pc = "done"

\* a step that moves an invocation out of its delay resumes it
DelayRunsOut(i) ==
    /\ inv[i].pc = "h_sleep" /\ inv'[i].pc # "h_sleep" => inv'[i].pc = "h_read"
    /\ inv[i].pc = "e_sleep" /\ inv'[i].pc # "e_sleep" => inv'[i].pc = "e_off"

C12_NoCancellation ==
    /\ \A i \in Inv : HitmanArmed(i) ~> HitmanReturned(i)
    /\ \A i \in Inv : EmoteArmed(i) ~> (inv[i].sent = EmoteMsgs(i))
    /\ [][\A i \in Inv : ResultIsFinal(i) /\ DelayRunsOut(i)]_vars

\* an emote-only window was opened while a hitman was parked; the window
\* has been closed and the hitman has returned after its delay
C12_Witness ==
    \E i, j \in Inv :
        /\ HitmanCall(i) /\ hist[i].armed /\ HitmanReturned(i)
        /\ EmoteCall(j) /\ i \in hist[j].parked
        /\ inv[j].sent = EmoteMsgs(j) /\ inv[j].result = NoReply

(***************************************************************************)
(* C13 as stated: a failure of the music-service port in spotify,          *)
(* spotify.playlist and lastsong, or of the ad-trigger port in commercial, *)
(* is returned as a Failure; a failure of the weather or translation port  *)
(* becomes a Reply with a descriptive text and never a Failure; the        *)
(* failing port is called exactly once.                                    *)
(***************************************************************************)
MusicPorts ==
    {"spotify.get_current_song", "spotify.get_current_playlist",
     "spotify.get_recently_played"}

\* the calls invocation i made of a port in ports / those that failed
CallsOf(i, ports) ==
    {k \in 1..Len(inv[i].calls) : inv[i].calls[k].port \in ports}
FailedCalls(i, ports) ==
    {k \in CallsOf(i, ports) : inv[i].calls[k].err # ""}

\* invocation i of one of the actions met a failure of one of the ports
PortFailed(i, actions, ports) ==
    inv[i].action \in actions /\ FailedCalls(i, ports) # {}

\* the failing port was called once, and its failure is a hard Failure
HardFailure(i, ports) ==
    /\ Cardinality(CallsOf(i, ports)) = 1
    /\ Done(i) /\ inv[i].result.tag = "Failure"

\* the failing port was called once, and its failure is the reply text
SoftFailure(i, ports, texts) ==
    /\ Cardinality(CallsOf(i, ports)) = 1
    /\ Done(i) /\ inv[i].result.tag = "Reply" /\ inv[i].result.text \in texts

WeatherTexts == {"location not found", "Failed getting weather: WeatherError"}
TranslateTexts == {"error when translating: TranslationError"}

\* what spotify, spotify.playlist, commercial, weather and translate do
CommonClassification(i) ==
    /\ PortFailed(i, {"spotify", "spotify.playlist"}, MusicPorts)
          => HardFailure(i, MusicPorts)
    /\ PortFailed(i, {"commercial"}, {"twitch_api.run_ad"})
          => HardFailure(i, {"twitch_api.run_ad"})
    /\ PortFailed(i, {"weather"}, {"weather.get_weather"})
          => SoftFailure(i, {"weather.get_weather"}, WeatherTexts)
    /\ PortFailed(i, {"translate"}, {"translator.translate"})
          => SoftFailure(i, {"translator.translate"}, TranslateTexts)
    /\ inv[i].action \in {"weather", "translate"} => inv[i].result.tag # "Failure"

C13_MusicFailuresAreHard ==
    \A i \in Inv :
        /\ CommonClassification(i)
        /\ PortFailed(i, {"lastsong"}, MusicPorts) => HardFailure(i, MusicPorts)

(***************************************************************************)
(* C13, amended: a failure of the music-service port in spotify and        *)
(* spotify.playlist, or of the ad-trigger port in commercial, is returned  *)
(* as a Failure; in lastsong the failure of the music-service port is      *)
(* absorbed into the Reply "error getting last song: ..." and lastsong     *)
(* returns a Failure only for a persistence error of the token lookup; a   *)
(* failure of the weather or translation port becomes a Reply with a       *)
(* descriptive text and never a Failure; the failing port is called        *)
(* exactly once.                                                           *)
(***************************************************************************)
C13_LastSongFailureIsSoft ==
    \A i \in Inv :
        /\ CommonClassification(i)
        /\ PortFailed(i, {"lastsong"}, MusicPorts)
              => SoftFailure(i, MusicPorts, {"error getting last song: SpotifyError"})
        /\ inv[i].action = "lastsong" /\ inv[i].result.tag = "Failure"
              => inv[i].calls = <<TokenError(inv[i].channel)>>

\* the music service failed for lastsong and for spotify: the one replied
\* the error text, the other returned the Failure
C13_Witness ==
    \E i, j \in Inv :
        /\ PortFailed(i, {"lastsong"}, MusicPorts)
        /\ inv[i].result = Reply("error getting last song: SpotifyError")
        /\ PortFailed(j, {"spotify"}, MusicPorts)
        /\ inv[j].result = Failure("SpotifyError", "")

(***************************************************************************)
(* C14: a weather invocation with no argument calls no port and returns    *)
(* Reply("location not specified"); with arguments it calls the weather    *)
(* port exactly once and nothing else, and the location it passes is the   *)
(* arguments in their order with one space between two of them.            *)
(***************************************************************************)
RECURSIVE Spaced(_)
\* the characters of the tokens with a space between neighbours
Spaced(args) ==
    IF Len(args) = 1 THEN args[1]
    ELSE args[1] \o <<" ">> \o Spaced(Tail(args))

WeatherCalled(i) == inv[i].action = "weather" /\ inv[i].pc # "idle"

C14_WeatherLooksUpJoinedArgs ==
    \A i \in Inv :
        WeatherCalled(i) =>
            /\ inv[i].args = <<>> =>
                  /\ inv[i].calls = <<>>
                  /\ inv[i].result = Reply("location not specified")
            /\ inv[i].args # <<>> =>
                  /\ Len(inv[i].calls) = 1
                  /\ inv[i].calls[1].port = "weather.get_weather"
                  /\ inv[i].calls[1].arg = Str(Spaced(inv[i].args))
                  /\ inv[i].result # Reply("location not specified")

\* weather called with two tokens and looked up as "amy bob", next to a
\* weather called with none
C14_Witness ==
    \E i, j \in Inv :
        /\ WeatherCalled(i) /\ Len(inv[i].args) = 2
        /\ inv[i].calls[1].arg = "amy bob"
        /\ WeatherCalled(j) /\ inv[j].args = <<>>
        /\ inv[j].result = Reply("location not specified")

(***************************************************************************)
(* C15: backpressure on the bounded channel, with a live consumer.  The    *)
(* channel never holds more than its capacity; a producer that finds it    *)
(* full stays at its send with nothing enqueued and leaves it only by      *)
(* enqueuing its message; a producer always gets past its send; what an    *)
(* invocation has enqueued is what the consumer has received of it         *)
(* followed by what the channel still buffers of it, so nothing is lost or *)
(* delivered twice, and in the end everything enqueued has been received;  *)
(* an invocation that is not at a send can take its step while another     *)
(* waits for room.                                                         *)
(***************************************************************************)
\* the messages of invocation i the channel buffers, oldest first
RECURSIVE Buffered(_, _)
Buffered(q, i) ==
    IF q = <<>> THEN <<>>
    ELSE IF Head(q).id = i THEN <<Head(q)>> \o Buffered(Tail(q), i)
    ELSE Buffered(Tail(q), i)

NothingLost ==
    /\ Len(chan) <= MaxQueue
    /\ \A i \in Inv : inv[i].sent = inv[i].got \o Buffered(chan, i)

WaitingBlocksNoStep ==
    \A i, j \in Inv :
        WaitsForRoom(j) /\ InFlight(i) /\ inv[i].pc \notin SendPcs => ENABLED Step(i)

\* a step leaves a producer waiting for room where it is, and a producer
\* that gets past its send has put one message at the end of the channel
SendSuspendsOrEnqueues(i) ==
    /\ WaitsForRoom(i) => inv'[i].pc = inv[i].pc /\ inv'[i].sent = inv[i].sent
    /\ inv[i].pc \in SendPcs /\ inv'[i].pc # inv[i].pc =>
          /\ Len(inv'[i].sent) = Len(inv[i].sent) + 1
          /\ chan' = Append(chan, inv'[i].sent[Len(inv'[i].sent)])

C15_BackpressureLosesNothing ==
    /\ [](NothingLost /\ WaitingBlocksNoStep)
    /\ [][\A i \in Inv : SendSuspendsOrEnqueues(i)]_vars
    /\ \A i \in Inv : WaitsForRoom(i) ~> ~WaitsForRoom(i)
    /\ \A i \in Inv : (inv[i].pc \in SendPcs) ~> (inv[i].pc \notin SendPcs)
    /\ <>[](\A i \in Inv : inv[i].got = inv[i].sent)

\* the channel is full of messages of two invocations, one of them waits
\* at its next send and the other, back from its delay, is about to read
\* the record
C15_Witness ==
    \E i, j \in Inv :
        /\ WaitsForRoom(j) /\ Len(inv[j].sent) > 0
        /\ inv[i].pc = "h_read"
        /\ Buffered(chan, i) # <<>> /\ Buffered(chan, j) # <<>>

(***************************************************************************)
(* C16 as stated: a hitman(C,U) invoked while the record of (C,U) carries  *)
(* protected=true from a bodyguard that had returned before, and with no   *)
(* bodyguard(C,U) in flight during its lifetime, times U out.              *)
(***************************************************************************)
\* hitman i found protected=true when invoked and met no bodyguard since
StaleGuard(i) == HitmanCall(i) /\ hist[i].before = "true" /\ ~hist[i].bg

C16_StaleGuardAlwaysTimedOut ==
    \A i \in Inv : StaleGuard(i) /\ Done(i) => TimedOut(i)

(***************************************************************************)
(* C16, amended: the hitman's first step, when add_hitman succeeds,        *)
(* overwrites the record with protected=false, so the stale protection has *)
(* no effect: the delayed read never returns true, the protected branch is *)
(* never taken, and the hitman times U out unless a persistence call fails *)
(* (Failure(DBError)) or the receiver is gone (panic of the send), in      *)
(* which cases it enqueues no Raw timeout directive; when add_hitman fails *)
(* the record keeps protected=true.                                        *)
(***************************************************************************)
C16_StaleGuardHasNoEffect ==
    \A i \in Inv :
        StaleGuard(i) =>
            /\ inv[i].pc \in {"h_say", "h_sleep", "h_read", "h_raw"}
                  => db[Key(i)] = "false"
            /\ hist[i].read \in {"", "false"}
            /\ ~hist[i].cleared /\ inv[i].result # Reply("")
            /\ Done(i) =>
                  \/ TimedOut(i) /\ hist[i].read = "false"
                  \/ /\ hist[i].dbfail \in {"db.add_hitman", "db.get_hitman_protected"}
                     /\ inv[i].result = Failure("DBError", "")
                     /\ RawTimeouts(i) = {}
                     /\ hist[i].dbfail = "db.add_hitman" /\ ~hist[i].overlap
                           => db[Key(i)] = "true"
                  \/ /\ inv[i].result = Panic("Failed to send")
                     /\ RawTimeouts(i) = {}

\* a bodyguard had announced its protection and returned; the hitman
\* invoked afterwards read protected=false and timed the user out
C16_Witness ==
    \E i, j \in Inv :
        /\ StaleGuard(i) /\ TimedOut(i) /\ hist[i].read = "false"
        /\ BodyguardCall(j) /\ Key(j) = Key(i)
        /\ inv[j].sent = <<GuardedSay(j)>> /\ inv[j].result = Reply("")
        /\ db[Key(i)] = "false"

(***************************************************************************)
(* C17 as stated: protection is consumed once.  When exactly one           *)
(* bodyguard(C,U) is invoked next to several hitman(C,U), at most one of   *)
(* the hitmen takes the protected branch.                                  *)
(***************************************************************************)
\* hitman i took the protected branch: its delayed read returned true
Spared(i) == HitmanCall(i) /\ hist[i].read = "true"

\* the bodyguards invoked for key k
BodyguardsOf(k) == {j \in Inv : BodyguardCall(j) /\ Key(j) = k}

OneBodyguard(k) == Cardinality(BodyguardsOf(k)) = 1

KeyOfCall(c) ==
    IF c.port = "db.set_hitman_protection" /\ c.err = "" THEN c.arg[1] ELSE c.arg

CallsNameOwnKey(i) ==
    \A k \in 1..Len(inv[i].calls) : KeyOfCall(inv[i].calls[k]) = Key(i)

\* no other hitman or bodyguard was invoked for the key of i
AloneOnKey(i) ==
    \A j \in Inv \ {i} : (HitmanCall(j) \/ BodyguardCall(j)) => Key(j) # Key(i)

EndsAsIfAlone(i) ==
    /\ hist[i].read \in {"", "false"}
    /\ Done(i) =>
          \/ TimedOut(i)
          \/ /\ hist[i].dbfail \in {"db.add_hitman", "db.get_hitman_protected"}
             /\ inv[i].result = Failure("DBError", "")
          \/ inv[i].result = Panic("Failed to send")

IsolatedPerKey(i) ==
    /\ HitmanCall(i) \/ BodyguardCall(i) => CallsNameOwnKey(i)
    /\ HitmanCall(i) =>
          \A k \in 1..Len(inv[i].sent) :
              /\ inv[i].sent[k].channel = inv[i].channel
              /\ inv[i].sent[k].kind = "Raw" => inv[i].sent[k] = TimeoutRaw(i)
    /\ BodyguardCall(i) =>
          \A k \in 1..Len(inv[i].sent) :
              inv[i].sent[k].kind = "Say" /\ inv[i].sent[k].channel = inv[i].channel
    /\ HitmanCall(i) /\ AloneOnKey(i) => EndsAsIfAlone(i)

\* a step that changes the record of key k is a persistence call of an
\* invocation for k
RecordChangedByOwner(k) ==
    db'[k] # db[k] =>
        \E j \in Inv :
            /\ HitmanCall(j) \/ BodyguardCall(j)
            /\ Key(j) = k
            /\ Len(inv'[j].calls) = Len(inv[j].calls) + 1

C18_IsolatedPerChannelAndUser ==
    /\ [](\A i \in Inv : IsolatedPerKey(i))
    /\ [][\A k \in Keys : RecordChangedByOwner(k)]_vars

\* while a hitman for U in one channel was parked, a bodyguard protected U
\* in another channel; the hitman timed U out and the other channel's
\* record is the one that is protected
C18_Witness ==
    \E i, j \in Inv :
        /\ HitmanCall(i) /\ BodyguardCall(j)
        /\ inv[j].user = inv[i].user /\ inv[j].channel # inv[i].channel
        /\ i \in hist[j].parked
        /\ TimedOut(i) /\ Done(j)
        /\ db[Key(j)] = "true" /\ db[Key(i)] = "false"

(***************************************************************************)
(* C19: the emote-only directives of one chat channel, for overlapping     *)
(* emote-only invocations.  At every moment, among the messages enqueued   *)
(* for the channel and among those the consumer has received, the Raw      *)
(* directives disabling emote-only are at most as many as those enabling   *)
(* it; once every emote-only invocation of the channel has returned from   *)
(* run(), there are as many of the one as of the other, one pair per       *)
(* invocation, and the last directive enqueued for the channel disables    *)
(* emote-only.  (That the mode does not stay enabled until the last        *)
(* overlapping window ends is the reachable state C19_Witness.)            *)
(***************************************************************************)
\* the emote-only invocations of chat channel c
EmoteCallsOn(c) == {i \in Inv : EmoteCall(i) /\ inv[i].channel = c}

\* the positions <<i, k>> at which directive text stands in the messages
\* enqueued for c / received from c
Enqueued(c, text) ==
    {p \in Inv \X (1..3) :
        /\ inv[p[1]].channel = c /\ p[2] <= Len(inv[p[1]].sent)
        /\ inv[p[1]].sent[p[2]].kind = "Raw" /\ inv[p[1]].sent[p[2]].text = text}
Received(c, text) ==
    {p \in Inv \X (1..3) :
        /\ inv[p[1]].channel = c /\ p[2] <= Len(inv[p[1]].got)
        /\ inv[p[1]].got[p[2]].kind = "Raw" /\ inv[p[1]].got[p[2]].text = text}

\* every emote-only invocation of c has returned Ok(None) from run()
AllReturned(c) ==
    EmoteCallsOn(c) # {} /\ \A i \in EmoteCallsOn(c) : inv[i].result = NoReply

C19_DisablesNeverExceedEnables ==
    \A c \in Channels :
        /\ Cardinality(Enqueued(c, "/emoteonlyoff")) <= Cardinality(Enqueued(c, "/emoteonly"))
        /\ Cardinality(Received(c, "/emoteonlyoff")) <= Cardinality(Received(c, "/emoteonly"))
        /\ AllReturned(c) =>
              /\ Cardinality(Enqueued(c, "/emoteonly")) = Cardinality(EmoteCallsOn(c))
              /\ Cardinality(Enqueued(c, "/emoteonlyoff")) = Cardinality(EmoteCallsOn(c))
              /\ emoteMode[c] = "/emoteonlyoff"

\* two emote-only windows overlap on one channel; the first has been
\* closed, so the channel's last directive disables emote-only while the
\* second window is still in its delay
C19_Witness ==
    \E i, j \in Inv :
        /\ i # j /\ EmoteCall(i) /\ EmoteCall(j) /\ inv[i].channel = inv[j].channel
        /\ inv[i].result = NoReply
        /\ inv[j].pc = "e_sleep"
        /\ emoteMode[inv[j].channel] = "/emoteonlyoff"

====
